---- MODULE Spec2Model ----
(***************************************************************************)
(* Model of black_bench.py: the picnic-bench generator script.             *)
(*                                                                         *)
(* Lengths are integers in millimetres (0.04 m = 40), angles are integers  *)
(* in microradians, colours and roughness are in thousandths.  Every       *)
(* length the script halves is an even number of millimetres in the value  *)
(* sets below, so x / 2 is exact as x \div 2.                              *)
(*                                                                         *)
(* The script takes no arguments: its parameters are the assignments of    *)
(* lines 52-63.  The Dimensions step models that block; it assigns the     *)
(* values of the source (the defaults below) or an edited set of values    *)
(* drawn from the value sets, which is how the script is parameterised.    *)
(***************************************************************************)
EXTENDS Integers, Sequences, FiniteSets, TLC

VARIABLES pc, idx, dims, scene, materials, all_objects, selected,
          parent_empty, scene_camera, outcome

vars == <<pc, idx, dims, scene, materials, all_objects, selected,
          parent_empty, scene_camera, outcome>>

(* ------------------------------------------------------------------ *)
(* Bounds of the value sets                                            *)
(* ------------------------------------------------------------------ *)
MaxOverhangSteps == 7
MaxLegSteps == 4
MaxSeatHeightSteps == 2
MaxSeatWidthSteps == 1

(* ------------------------------------------------------------------ *)
(* The dimensions of the source, lines 52-63 (millimetres)             *)
(* ------------------------------------------------------------------ *)
plank_thickness == 40
plank_width == 150
table_length == 1800
table_width == 600
seat_width == 300
table_height == 750
seat_height == 450
leg_thickness == 80
overhang == 150

(* math.pi in microradians, and sin(65 degrees) in millionths *)
Pi == 3141593
SinLegAngleMicro == 906308

(* math.radians: degrees to radians (microradians here) *)
Radians(deg) == (deg * Pi) \div 180

HalfPi == Pi \div 2

leg_angle == Radians(65)

(* Values the dimension block may be edited to.  Each set holds the    *)
(* value of the source.                                                *)
OverhangValues == {overhang * k : k \in 1..MaxOverhangSteps}
LegThicknessValues == {leg_thickness * k : k \in 1..MaxLegSteps}
SeatHeightValues == {seat_height + 150 * k : k \in 0..MaxSeatHeightSteps}
SeatWidthValues == {seat_width + 100 * k : k \in 0..MaxSeatWidthSteps}

(* The clearance of line 66 left out *)
SeatOffsetNoClearance(tw, sw) == (tw \div 2) + (sw \div 2)

(* Line 66: seat_offset = (table_width / 2) + 0.05 + (seat_width / 2) *)
SeatOffset(tw, sw) == (tw \div 2) + 50 + (sw \div 2)

(* The locals of create_picnic_bench after lines 52-66 *)
MakeDims(oh, lt, sh, sw) ==
    [plank_thickness |-> plank_thickness,
     plank_width     |-> plank_width,
     table_length    |-> table_length,
     table_width     |-> table_width,
     seat_width      |-> sw,
     table_height    |-> table_height,
     seat_height     |-> sh,
     leg_thickness   |-> lt,
     overhang        |-> oh,
     seat_offset     |-> SeatOffset(table_width, sw)]

DefaultDims == MakeDims(overhang, leg_thickness, seat_height, seat_width)

(* The locals before the dimension block has run *)
NoDims ==
    [plank_thickness |-> 0, plank_width |-> 0, table_length |-> 0,
     table_width |-> 0, seat_width |-> 0, table_height |-> 0,
     seat_height |-> 0, leg_thickness |-> 0, overhang |-> 0,
     seat_offset |-> 0]

(* ------------------------------------------------------------------ *)
(* Host objects                                                        *)
(* ------------------------------------------------------------------ *)

(* create_material: a node material of the given colour, roughness 0.7 *)
create_material(name, colour) ==
    [name |-> name, use_nodes |-> TRUE, base_color |-> colour,
     roughness |-> 700]

(* create_plank: a cube of edge 2 at `location`, scaled by              *)
(* dimensions / 2 and the scale applied, so its extents are            *)
(* `dimensions`; rotated, given the material, and bevelled.            *)
create_plank(name, dimensions, location, rotation, material) ==
    [name |-> name,
     dimensions |-> dimensions,
     location |-> location,
     rotation_euler |-> rotation,
     materials |-> IF material = "" THEN <<>> ELSE <<material>>,
     bevel |-> [width |-> 5, segments |-> 2],
     parent |-> ""]

NoRotation == <<0, 0, 0>>

(* ------------------------------------------------------------------ *)
(* The loops of create_picnic_bench                                    *)
(* ------------------------------------------------------------------ *)

(* The gap of lines 71 and 82 left out of the second offset *)
PlankOffsetsLopsided(d) ==
    <<-(d.plank_width \div 2) - 10, d.plank_width \div 2>>

(* Lines 71 and 82: [-plank_width/2 - 0.01, plank_width/2 + 0.01] *)
PlankOffsets(d) ==
    <<-(d.plank_width \div 2) - 10, (d.plank_width \div 2) + 10>>

(* The sides walked back to front *)
SidesBackFirst == <<1, -1>>

(* Lines 81, 97 and 131: for side in [-1, 1] *)
Sides == <<-1, 1>>

(* Lines 96, 111 and 130: the two leg-pair positions *)
LegPositions(d) ==
    <<-((d.table_length \div 2) - d.overhang),
      (d.table_length \div 2) - d.overhang>>

(* Position of iteration k (1..4) of a two-by-two nested loop *)
Outer(k) == ((k - 1) \div 2) + 1
Inner(k) == ((k - 1) % 2) + 1

(* Lines 72-77 *)
TableTopPlank(d, i) ==
    create_plank([prefix |-> "TableTop", args |-> <<i>>],
                 <<d.table_length, d.plank_width, d.plank_thickness>>,
                 <<0, PlankOffsets(d)[i], d.table_height>>,
                 NoRotation, "BlackWood")

(* A seat plank placed at the table's height *)
SeatPlankAtTableHeight(d, side, i) ==
    create_plank([prefix |-> IF side = -1 THEN "Seat_Front" ELSE "Seat_Back",
                  args |-> <<i>>],
                 <<d.table_length, d.plank_width, d.plank_thickness>>,
                 <<0, side * d.seat_offset + PlankOffsets(d)[i], d.table_height>>,
                 NoRotation, "BlackWood")

(* Lines 83-89 *)
SeatPlank(d, side, i) ==
    create_plank([prefix |-> IF side = -1 THEN "Seat_Front" ELSE "Seat_Back",
                  args |-> <<i>>],
                 <<d.table_length, d.plank_width, d.plank_thickness>>,
                 <<0, side * d.seat_offset + PlankOffsets(d)[i], d.seat_height>>,
                 NoRotation, "BlackWood")

(* Line 94: leg_length = (table_height + 0.1) / math.sin(leg_angle) *)
leg_length(d) == ((d.table_height + 100) * 1000000) \div SinLegAngleMicro

(* A leg whose splay ignores its side *)
LegPlankSameSplay(d, x_pos, side) ==
    create_plank([prefix |-> "Leg", args |-> <<x_pos, side>>],
                 <<d.leg_thickness, d.leg_thickness, leg_length(d)>>,
                 <<x_pos, side * 500, d.table_height \div 2>>,
                 <<HalfPi - leg_angle, 0, 0>>, "BlackWood")

(* Lines 99-107 *)
LegPlank(d, x_pos, side) ==
    create_plank([prefix |-> "Leg", args |-> <<x_pos, side>>],
                 <<d.leg_thickness, d.leg_thickness, leg_length(d)>>,
                 <<x_pos, side * 500, d.table_height \div 2>>,
                 <<side * (HalfPi - leg_angle), 0, 0>>, "BlackWood")

(* A cross brace without the drop below the seat *)
CrossBracePlankNoDrop(d, x_pos) ==
    create_plank([prefix |-> "CrossBrace", args |-> <<x_pos>>],
                 <<d.leg_thickness, d.table_width + d.seat_width * 2 + 300,
                   d.leg_thickness>>,
                 <<x_pos, 0, d.seat_height>>,
                 NoRotation, "BlackWood")

(* Lines 112-117 *)
CrossBracePlank(d, x_pos) ==
    create_plank([prefix |-> "CrossBrace", args |-> <<x_pos>>],
                 <<d.leg_thickness, d.table_width + d.seat_width * 2 + 300,
                   d.leg_thickness>>,
                 <<x_pos, 0, d.seat_height - 100>>,
                 NoRotation, "BlackWood")

(* A centre brace shortened by both legs' full thickness *)
CentreBracePlankShort(d) ==
    create_plank([prefix |-> "CentreBrace", args |-> <<>>],
                 <<d.table_length - 2 * d.overhang - 2 * d.leg_thickness,
                   d.leg_thickness, d.leg_thickness>>,
                 <<0, 0, d.seat_height - 100>>,
                 NoRotation, "BlackWood")

(* Lines 121-126 *)
CentreBracePlank(d) ==
    create_plank([prefix |-> "CentreBrace", args |-> <<>>],
                 <<d.table_length - 2 * d.overhang - d.leg_thickness,
                   d.leg_thickness, d.leg_thickness>>,
                 <<0, 0, d.seat_height - 100>>,
                 NoRotation, "BlackWood")

(* Lines 132-137 *)
SeatSupportPlank(d, x_pos, side) ==
    create_plank([prefix |-> "SeatSupport", args |-> <<x_pos, side>>],
                 <<d.leg_thickness, d.seat_width + 50, d.leg_thickness>>,
                 <<x_pos, side * d.seat_offset,
                   d.seat_height - (d.plank_thickness \div 2)
                                 - (d.leg_thickness \div 2)>>,
                 NoRotation, "BlackWood")

(* ------------------------------------------------------------------ *)
(* Initial state: the host's scene before the script runs              *)
(* ------------------------------------------------------------------ *)
DefaultScene == <<"MESH", "LIGHT", "CAMERA">>

Init ==
    /\ pc = "start"
    /\ idx = 1
    /\ dims = NoDims
    /\ scene \in {<<>>, DefaultScene}
    /\ materials = <<>>
    /\ all_objects = <<>>
    /\ selected = {}
    /\ parent_empty = ""
    /\ scene_camera = 0
    /\ outcome = "running"

(* ------------------------------------------------------------------ *)
(* Steps of create_picnic_bench                                        *)
(* ------------------------------------------------------------------ *)

(* Line 47, clear_scene: select everything and delete it *)
ClearScene ==
    /\ pc = "start"
    /\ scene' = <<>>
    /\ pc' = "material"
    /\ UNCHANGED <<idx, dims, materials, all_objects, selected,
                   parent_empty, scene_camera, outcome>>

(* Line 50 *)
CreateBlackWood ==
    /\ pc = "material"
    /\ materials' = Append(materials,
                           create_material("BlackWood", <<20, 20, 20, 1000>>))
    /\ pc' = "dims"
    /\ UNCHANGED <<idx, dims, scene, all_objects, selected,
                   parent_empty, scene_camera, outcome>>

(* Lines 52-68: the dimension block, seat_offset, all_objects = [] *)
Dimensions ==
    /\ pc = "dims"
    /\ \E oh \in OverhangValues, lt \in LegThicknessValues,
          sh \in SeatHeightValues, sw \in SeatWidthValues :
           dims' = MakeDims(oh, lt, sh, sw)
    /\ all_objects' = <<>>
    /\ idx' = 1
    /\ pc' = "table_top"
    /\ UNCHANGED <<scene, materials, selected, parent_empty, scene_camera,
                   outcome>>

(* One iteration of a plank loop of `n` iterations: the plank is added *)
(* to the scene and appended to all_objects.                           *)
AddPlank(plank, n, next) ==
    /\ all_objects' = Append(all_objects, plank)
    /\ scene' = Append(scene, "MESH")
    /\ IF idx < n
         THEN idx' = idx + 1 /\ pc' = pc
         ELSE idx' = 1 /\ pc' = next
    /\ UNCHANGED <<dims, materials, selected, parent_empty, scene_camera,
                   outcome>>

(* Lines 70-78 *)
CreateTableTop ==
    /\ pc = "table_top"
    /\ AddPlank(TableTopPlank(dims, idx), 2, "seats")

(* Lines 80-90 *)
CreateSeat ==
    /\ pc = "seats"
    /\ AddPlank(SeatPlank(dims, Sides[Outer(idx)], Inner(idx)), 4, "legs")

(* Lines 92-108 *)
CreateLeg ==
    /\ pc = "legs"
    /\ AddPlank(LegPlank(dims, LegPositions(dims)[Outer(idx)],
                         Sides[Inner(idx)]), 4, "cross_braces")

(* Lines 110-118 *)
CreateCrossBrace ==
    /\ pc = "cross_braces"
    /\ AddPlank(CrossBracePlank(dims, LegPositions(dims)[idx]), 2,
                "centre_brace")

(* Lines 120-127 *)
CreateCentreBrace ==
    /\ pc = "centre_brace"
    /\ AddPlank(CentreBracePlank(dims), 1, "seat_supports")

(* Lines 129-138 *)
CreateSeatSupport ==
    /\ pc = "seat_supports"
    /\ AddPlank(SeatSupportPlank(dims, LegPositions(dims)[Outer(idx)],
                                 Sides[Inner(idx)]), 4, "select")

(* Lines 140-144: deselect all, then select every bench part *)
SelectParts ==
    /\ pc = "select"
    /\ selected' = 1..Len(all_objects)
    /\ pc' = "parent"
    /\ UNCHANGED <<idx, dims, scene, materials, all_objects, parent_empty,
                   scene_camera, outcome>>

(* Lines 146-152: an empty named PicnicBench becomes every part's parent *)
ParentParts ==
    /\ pc = "parent"
    /\ scene' = Append(scene, "EMPTY")
    /\ parent_empty' = "PicnicBench"
    /\ all_objects' = [i \in 1..Len(all_objects) |->
                          [all_objects[i] EXCEPT !.parent = "PicnicBench"]]
    /\ pc' = "ground"
    /\ UNCHANGED <<idx, dims, materials, selected, scene_camera, outcome>>

(* Lines 154-159 *)
AddGround ==
    /\ pc = "ground"
    /\ scene' = Append(scene, "MESH")
    /\ materials' = Append(materials,
                           create_material("GroundMat", <<300, 300, 300, 1000>>))
    /\ pc' = "camera"
    /\ UNCHANGED <<idx, dims, all_objects, selected, parent_empty,
                   scene_camera, outcome>>

(* Lines 161-165 *)
AddCamera ==
    /\ pc = "camera"
    /\ scene' = Append(scene, "CAMERA")
    /\ scene_camera' = Len(scene) + 1
    /\ pc' = "light"
    /\ UNCHANGED <<idx, dims, materials, all_objects, selected, parent_empty,
                   outcome>>

(* Lines 167-174: the sun, the message, return parent_empty *)
AddLight ==
    /\ pc = "light"
    /\ scene' = Append(scene, "LIGHT")
    /\ outcome' = "success"
    /\ pc' = "done"
    /\ UNCHANGED <<idx, dims, materials, all_objects, selected, parent_empty,
                   scene_camera>>

Next ==
    \/ ClearScene
    \/ CreateBlackWood
    \/ Dimensions
    \/ CreateTableTop
    \/ CreateSeat
    \/ CreateLeg
    \/ CreateCrossBrace
    \/ CreateCentreBrace
    \/ CreateSeatSupport
    \/ SelectParts
    \/ ParentParts
    \/ AddGround
    \/ AddCamera
    \/ AddLight

Spec == Init /\ [][Next]_vars

(* ------------------------------------------------------------------ *)
(* Vocabulary of the properties                                        *)
(* ------------------------------------------------------------------ *)

(* The plank loops have all run: all_objects holds the whole bench *)
Complete == pc \in {"select", "parent", "ground", "camera", "light", "done"}

(* The dimension block has run *)
DimsSet == pc \notin {"start", "material", "dims"}

(* The parameter invariant of the specification *)
Valid(d) ==
    /\ d.plank_thickness > 0 /\ d.plank_width > 0 /\ d.table_length > 0
    /\ d.table_width > 0 /\ d.seat_width > 0 /\ d.table_height > 0
    /\ d.seat_height > 0 /\ d.leg_thickness > 0 /\ d.overhang > 0
    /\ d.seat_height < d.table_height
    /\ 2 * d.overhang < d.table_length

(* table_length/2 - overhang <= 0 *)
Degenerate(d) == (d.table_length \div 2) - d.overhang <= 0

Abs(x) == IF x < 0 THEN -x ELSE x

Planks == 1..Len(all_objects)
WithPrefix(S) == {i \in Planks : all_objects[i].name.prefix \in S}
TableTops == WithPrefix({"TableTop"})
Seats == WithPrefix({"Seat_Front", "Seat_Back"})
Legs == WithPrefix({"Leg"})
CrossBraces == WithPrefix({"CrossBrace"})
CentreBraces == WithPrefix({"CentreBrace"})
SeatSupports == WithPrefix({"SeatSupport"})

X(i) == all_objects[i].location[1]
Y(i) == all_objects[i].location[2]
Z(i) == all_objects[i].location[3]
Dim(i, axis) == all_objects[i].dimensions[axis]

(* The axis-aligned boxes of planks i and j share interior volume *)
BoxesOverlap(i, j) ==
    \A axis \in 1..3 :
        2 * Abs(all_objects[i].location[axis] - all_objects[j].location[axis])
            < Dim(i, axis) + Dim(j, axis)

ExpectedPrefixes ==
    <<"TableTop", "TableTop",
      "Seat_Front", "Seat_Front", "Seat_Back", "Seat_Back",
      "Leg", "Leg", "Leg", "Leg",
      "CrossBrace", "CrossBrace",
      "CentreBrace",
      "SeatSupport", "SeatSupport", "SeatSupport", "SeatSupport">>

(* ------------------------------------------------------------------ *)
(* C1: for valid parameters a run produces exactly 17 planks, in the   *)
(* order 2 table-top planks, 2 front and 2 back seat planks, 4 legs,   *)
(* 2 cross braces, 1 centre brace, 4 seat supports.                    *)
(* ------------------------------------------------------------------ *)
C1_SeventeenPlanksInOrder ==
    (Complete /\ Valid(dims)) =>
        /\ Len(all_objects) = 17
        /\ \A i \in 1..17 : all_objects[i].name.prefix = ExpectedPrefixes[i]

C1_Witness ==
    /\ pc = "done"
    /\ dims = DefaultDims
    /\ Len(all_objects) = 17
    /\ all_objects[5].name.prefix = "Seat_Back"

SeatCentrelineTwice(prefix) ==
    LET pair == WithPrefix({prefix})
        a == CHOOSE i \in pair : all_objects[i].name.args = <<1>>
        b == CHOOSE i \in pair : all_objects[i].name.args = <<2>>
    IN  Y(a) + Y(b)

MirroredIn(group) ==
    \A i \in group : \E j \in group \ {i} :
        /\ Y(j) = -Y(i)
        /\ X(j) = X(i)
        /\ Z(j) = Z(i)
        /\ all_objects[j].dimensions = all_objects[i].dimensions

C4_MirrorSymmetry ==
    Complete => (MirroredIn(TableTops) /\ MirroredIn(Seats))

C4_Witness ==
    /\ Complete
    /\ dims = DefaultDims
    /\ Cardinality(TableTops) = 2 /\ Cardinality(Seats) = 4
    /\ Y(3) = -585 /\ Y(6) = 585

(* ------------------------------------------------------------------ *)
(* C5: in the output every table-top plank is at z = table_height,     *)
(* every seat plank at z = seat_height, and the table top is above the *)
(* seats.                                                              *)
(* ------------------------------------------------------------------ *)
C5_TableAboveSeats ==
    (Complete /\ Valid(dims)) =>
        /\ \A i \in TableTops : Z(i) = dims.table_height
        /\ \A i \in Seats : Z(i) = dims.seat_height
        /\ \A i \in TableTops : \A j \in Seats : Z(i) > Z(j)

C5_Witness ==
    /\ Complete
    /\ Valid(dims)
    /\ dims.seat_height = 600
    /\ Cardinality(TableTops) = 2 /\ Cardinality(Seats) = 4

(* ------------------------------------------------------------------ *)
(* C6: exactly 4 legs, one for each leg-pair position                  *)
(* x = -(table_length/2 - overhang), +(table_length/2 - overhang)      *)
(* (-0.75 and +0.75 by default) and each side -1, +1; a leg's rotation *)
(* is (side * (pi/2 - leg_angle), 0, 0), so the two legs at one x are  *)
(* splayed by 25 degrees in opposite directions.                       *)
(* ------------------------------------------------------------------ *)
C6_FourLegs ==
    (Complete /\ Valid(dims)) =>
        LET a == (dims.table_length \div 2) - dims.overhang IN
        /\ Cardinality(Legs) = 4
        /\ \A x \in {-a, a} : \A side \in {-1, 1} :
             Cardinality({i \in Legs :
                 /\ X(i) = x
                 /\ all_objects[i].name.args[2] = side
                 /\ all_objects[i].rotation_euler
                      = <<side * (HalfPi - leg_angle), 0, 0>>}) = 1
        /\ \A i \in Legs : \A j \in Legs \ {i} :
             X(i) = X(j) =>
                 /\ all_objects[i].rotation_euler[1]
                      = -all_objects[j].rotation_euler[1]
                 /\ Abs(all_objects[i].rotation_euler[1]) = Radians(25)
        /\ (dims = DefaultDims => a = 750)

C6_Witness ==
    /\ Complete
    /\ dims = DefaultDims
    /\ Cardinality(Legs) = 4
    /\ X(7) = -750 /\ X(10) = 750

(* ------------------------------------------------------------------ *)
(* C7 as stated: for valid parameters every plank has all three        *)
(* dimensions > 0, the centre brace length included.                   *)
(* ------------------------------------------------------------------ *)
AllDimensionsPositive ==
    \A i \in Planks : \A axis \in 1..3 : Dim(i, axis) > 0

LegsFitBetweenPairs(d) == d.leg_thickness < d.table_length - 2 * d.overhang

C8_SeatsClearOfTable ==
    Complete =>
        \A i \in Seats : 2 * Abs(Y(i)) - Dim(i, 2) >= dims.table_width + 2 * 50

(* ------------------------------------------------------------------ *)
(* C9: the centre brace is centred at (0, 0) at the z of both cross    *)
(* braces and its end faces coincide with the cross braces' inner      *)
(* faces: no gap, no overlap.                                          *)
(* ------------------------------------------------------------------ *)
C9_CentreBraceFits ==
    (Complete /\ Valid(dims)) =>
        /\ Cardinality(CentreBraces) = 1
        /\ \E l \in CrossBraces : \E r \in CrossBraces : X(l) < 0 /\ X(r) > 0
        /\ \A c \in CentreBraces :
             /\ X(c) = 0 /\ Y(c) = 0 /\ Z(c) = dims.seat_height - 100
             /\ \A k \in CrossBraces :
                  /\ Z(k) = Z(c)
                  /\ X(k) > 0 => 2 * X(c) + Dim(c, 1) = 2 * X(k) - Dim(k, 1)
                  /\ X(k) < 0 => 2 * X(c) - Dim(c, 1) = 2 * X(k) + Dim(k, 1)

C9_Witness ==
    /\ Complete
    /\ dims = DefaultDims
    /\ Dim(13, 1) = 1420
    /\ X(11) = -750 /\ X(12) = 750

(* ------------------------------------------------------------------ *)
(* C10: each seat support is centred on its seat's centreline, its top *)
(* face is at the underside of the seat planks, and its box does not   *)
(* overlap the box of the cross brace at the same x.                   *)
(* ------------------------------------------------------------------ *)
C10_SupportsClearOfBraces ==
    Complete =>
        \A s \in SeatSupports :
            /\ Y(s) = all_objects[s].name.args[2] * dims.seat_offset
            /\ 2 * Z(s) + Dim(s, 3) = 2 * dims.seat_height - dims.plank_thickness
            /\ \A k \in CrossBraces : X(k) = X(s) => ~BoxesOverlap(s, k)

====
